---- MODULE Spec2Model ----
(***************************************************************************)
(* Model of the TskAuto traversal engine (tsk3/auto/auto.cpp).             *)
(*                                                                         *)
(* The session object, its image handle and filter settings are the       *)
(* program state.  A traversal is a chain of C++ calls and callbacks; the  *)
(* model keeps the call stack explicitly (one frame per active function)   *)
(* and has one action per straight-line piece of each function, cut at    *)
(* the points where the function calls down or is called back.  The       *)
(* enumeration primitives of the lower layer (tsk_vs_part_walk and        *)
(* tsk_fs_dir_walk) and the open calls are modelled by their contract.    *)
(* The variables trace and handles are history variables: they record the *)
(* hook invocations, the opens, the closes and the returns of the current *)
(* top-level call.                                                         *)
(*                                                                         *)
(* Spec is the engine driven through its public interface with hooks that  *)
(* only return a verdict.  SpecAttr adds a processFile hook that calls     *)
(* processAttributes, SpecSetters hooks that call the two setters, and     *)
(* SpecDestroy a processFile hook that destroys the session, SpecOffset    *)
(* partitions at any sector address.                                       *)
(*                                                                         *)
(* SpecL01 is the container extractor TskL01Extract (framework, L01        *)
(* containers): the object, the container file it reads and the buffers    *)
(* it allocates, driven through open(imageFile), close() and destruction.  *)
(***************************************************************************)
EXTENDS Integers, Sequences, FiniteSets, TLC

\* ---------------------------------------------------------------- bounds
MaxParts == 2
MaxFiles == 2
MaxAttrs == 2
MaxHookSets == 2

\* ------------------------------------------------------------- constants
NULL == 0
BlockSize == 2
RootInum == 2
BadInum == RootInum + 1

TSK_AUTO_TAG == "TSK_AUTO_TAG"
TagCleared == "0"

TSK_VS_PART_FLAG_ALLOC == "VS_ALLOC"
TSK_VS_PART_FLAG_UNALLOC == "VS_UNALLOC"
TSK_FS_DIR_WALK_FLAG_RECURSE == "FS_RECURSE"
TSK_FS_DIR_WALK_FLAG_ALLOC == "FS_ALLOC"
TSK_FS_DIR_WALK_FLAG_UNALLOC == "FS_UNALLOC"

TSK_RETVAL_ENUM == {"TSK_OK", "TSK_ERR", "TSK_COR", "TSK_STOP"}
TSK_FILTER_ENUM == {"TSK_FILTER_CONT", "TSK_FILTER_STOP", "TSK_FILTER_SKIP"}
TSK_WALK_RET_ENUM == {"TSK_WALK_CONT", "TSK_WALK_STOP", "TSK_WALK_ERROR"}

\* the partition-flag and walk-flag settings a caller may install
VolFlagSets == {{TSK_VS_PART_FLAG_ALLOC},
                {TSK_VS_PART_FLAG_ALLOC, TSK_VS_PART_FLAG_UNALLOC}}
FileFlagSets == {{TSK_FS_DIR_WALK_FLAG_RECURSE},
                 {TSK_FS_DIR_WALK_FLAG_UNALLOC}}

\* ------------------------------------------------- the image on the disk
\* What lies at a byte offset: nothing recognizable, a file system whose
\* directory tree cannot be read, or a file system with MaxFiles files.
FsContents == {[kind |-> "none", n |-> 0], [kind |-> "corrupt", n |-> 0],
               [kind |-> "ok", n |-> MaxFiles]}

\* an allocated partition holds any of these; an unallocated one holds no
\* recognizable file system
PartBodies == [flags : {TSK_VS_PART_FLAG_ALLOC}, fs : FsContents]
              \cup {[flags |-> TSK_VS_PART_FLAG_UNALLOC,
                     fs |-> [kind |-> "none", n |-> 0]]}

\* partition tables with up to MaxParts entries; entry i starts at sector i
PartTables == UNION {
    {[i \in 1..k |-> [start |-> i, flags |-> b[i].flags, fs |-> b[i].fs]] :
        b \in [1..k -> PartBodies]} : k \in 0..MaxParts}

\* an image either holds a volume system at offset 0, or (possibly) a bare
\* file system there
Images == {[vs |-> TRUE, fs0 |-> [kind |-> "none", n |-> 0], parts |-> p] :
              p \in PartTables}
          \cup {[vs |-> FALSE, fs0 |-> c, parts |-> << >>] : c \in FsContents}

\* the byte offsets a caller passes to the entry points that take one: the
\* start of the image and the start of the first partition
Offsets == {0, BlockSize}

\* Width in bits of a sector address (TSK_DADDR_T, unsigned) and of a byte
\* offset (TSK_OFF_T, signed): 64 in the program, scaled down here.  The
\* block size of a volume system is an unsigned value of half that width,
\* which the multiplication converts to the width of the sector address.
DaddrBits == 6
DaddrModulus == 2 ^ DaddrBits
TSK_DADDR_T == 0..(DaddrModulus - 1)

\* conversion of an unsigned value to TSK_OFF_T: values with the top bit set
\* come out negative (two's complement)
ToOffT(u) == IF u >= DaddrModulus \div 2 THEN u - DaddrModulus ELSE u

\* partition tables with one entry that starts at any sector address
OffsetTables ==
    {<<[start |-> s, flags |-> b.flags, fs |-> b.fs]>> :
        s \in TSK_DADDR_T, b \in PartBodies}

OffsetImages ==
    {[vs |-> TRUE, fs0 |-> [kind |-> "none", n |-> 0], parts |-> p] :
        p \in OffsetTables}

VARIABLES image, m_img_info, m_tag, m_volFilterFlags, m_fileFilterFlags,
          tsk_errno, stack, rv, trace, handles, imgLive, imgBadClose

\* TskL01Extract: the container file, the extractor object, the buffers it
\* has allocated (the number of times each was released) and the history of
\* the calls made on the object
VARIABLES container, extract, heap, l01log

\* the state of TskAuto and the state of TskL01Extract
auto == <<image, m_img_info, m_tag, m_volFilterFlags, m_fileFilterFlags,
          tsk_errno, stack, rv, trace, handles, imgLive, imgBadClose>>
l01 == <<container, extract, heap, l01log>>

vars == <<auto, l01>>

\* --------------------------------------------------------------- helpers
Ev(e, off, n, r) == [ev |-> e, off |-> off, n |-> n, r |-> r]

U8(v) == IF v = 0 THEN "0" ELSE "1"

Top == stack[Len(stack)]
Pop == SubSeq(stack, 1, Len(stack) - 1)
SetTop(f) == [stack EXCEPT ![Len(stack)] = f]

Idle == stack = << >> /\ m_tag = TSK_AUTO_TAG
Running(f, p) == stack # << >> /\ Top.fn = f /\ Top.pc = p

\* a traversal entry point that does not check for an open image
NoImage_Unchecked == FALSE

\* the precondition test (!m_img_info) of the traversal entry points
NoImage == m_img_info = NULL

\* ~TskAuto has run: the tag is cleared and the session object is gone
Destroyed == m_tag # TSK_AUTO_TAG

\* What a read of a member yields in code that still runs on the session.
\* While the session lives it is the member.  Once it is destroyed the
\* pointer dangles and the read is undefined: it yields what the destructor
\* stored, or what the member held before (the stores of the destructor are
\* dead stores that a build may drop, and the storage may be reused).
TagReads == IF Destroyed THEN {m_tag, TSK_AUTO_TAG} ELSE {m_tag}
NoImageReads == IF Destroyed THEN BOOLEAN ELSE {NoImage}
FileFlagReads ==
    IF Destroyed THEN FileFlagSets \cup {m_fileFilterFlags}
    ELSE {m_fileFilterFlags}

\* whether a read of image data fails for a reason other than the data: it
\* may, in any way, once the image handle the traversal uses has been closed
ReadFails == IF imgLive = {} THEN BOOLEAN ELSE {FALSE}

\* contract of tsk_vs_open: a volume system is found only at offset 0 of an
\* image that has one
VsAt(off) == image.vs /\ off = 0

\* contract of tsk_fs_open_img: the file system found at a byte offset is the
\* one of the partition that lies at that offset of the image
FsAt(off) ==
    LET at == {i \in 1..Len(image.parts) :
                  image.parts[i].start * BlockSize = off}
    IN IF off = 0 THEN image.fs0
       ELSE IF at # {} THEN image.parts[CHOOSE i \in at : TRUE].fs
       ELSE [kind |-> "none", n |-> 0]

\* append an event to the history of the current top-level call
Log(e) == Append(trace, e)

\* ------------------------------------------------------------------ Init
\* TskAuto::TskAuto()
NewSession ==
    /\ m_img_info = NULL
    /\ m_tag = TSK_AUTO_TAG
    /\ m_volFilterFlags = {TSK_VS_PART_FLAG_ALLOC}
    /\ m_fileFilterFlags = {TSK_FS_DIR_WALK_FLAG_RECURSE}
    /\ tsk_errno = "none"
    /\ stack = << >>
    /\ rv = 0
    /\ trace = << >>
    /\ handles = << >>
    /\ imgLive = {}
    /\ imgBadClose = 0

\* TskL01Extract::TskL01Extract(), lines 45-50
NewExtract ==
    /\ extract = [m_img_info |-> NULL, m_containerFilename |-> "",
                  m_archivedFiles |-> << >>, state |-> "live"]
    /\ heap = << >>
    /\ l01log = << >>

\* no container file is used
NoExtract == container = << >> /\ NewExtract

Init == image \in Images /\ NewSession /\ NoExtract

\* ------------------------------------------------------- image lifecycle
\* The image layer keeps the set imgLive of the handles that are open;
\* tsk_img_open hands out the lowest handle that is not open, and
\* tsk_img_close of a handle that is not open is counted in imgBadClose.
NewImg(live) == CHOOSE h \in 1..(Cardinality(live) + 1) :
                   h \notin live /\ \A g \in 1..(h - 1) : g \in live

tsk_img_close(st, h) ==
    IF h \in st.live
    THEN [st EXCEPT !.live = @ \ {h}]
    ELSE [st EXCEPT !.bad = @ + 1]

\* a close that leaves the stale handle in the session
closeImageBody_Stale(st) ==
    IF st.img # NULL
    THEN tsk_img_close(st, st.img)
    ELSE st

\* body of TskAuto::closeImage on the state st = [img, live, bad]: the handle
\* the session holds, the open handles and the count of bad closes
closeImageBody(st) ==
    IF st.img # NULL
    THEN [tsk_img_close(st, st.img) EXCEPT !.img = NULL]
    ELSE st

ImgSt == [img |-> m_img_info, live |-> imgLive, bad |-> imgBadClose]

\* a re-open that forgets the image it held without closing it
openImagePrior_Dropped(st) == [st EXCEPT !.img = NULL]

\* lines 52-53: a session that holds an image closes it first
openImagePrior(st) == IF st.img # NULL THEN closeImageBody(st) ELSE st

\* TskAuto::openImage; ok is the outcome of tsk_img_open
openImage(ok) ==
    /\ Idle
    /\ LET c == openImagePrior(ImgSt)
           h == IF ok THEN NewImg(c.live) ELSE NULL
       IN /\ m_img_info' = h
          /\ imgLive' = IF ok THEN c.live \cup {h} ELSE c.live
          /\ imgBadClose' = c.bad
          /\ rv' = IF h # NULL THEN 0 ELSE 1
    /\ trace' = <<Ev("call:openImage", 0, m_img_info, U8(rv'))>>
    /\ handles' = << >>
    /\ UNCHANGED <<l01, image, m_tag, m_volFilterFlags, m_fileFilterFlags,
                   stack,
                   tsk_errno>>

\* TskAuto::closeImage
closeImage ==
    /\ Idle
    /\ LET c == closeImageBody(ImgSt)
       IN /\ m_img_info' = c.img
          /\ imgLive' = c.live
          /\ imgBadClose' = c.bad
    /\ trace' = <<Ev("call:closeImage", 0, m_img_info, "void")>>
    /\ handles' = << >>
    /\ UNCHANGED <<l01, image, m_tag, m_volFilterFlags, m_fileFilterFlags,
                   tsk_errno, stack, rv>>

\* TskAuto::~TskAuto
Destructor ==
    /\ Idle
    /\ LET c == closeImageBody(ImgSt)
       IN /\ m_img_info' = c.img
          /\ imgLive' = c.live
          /\ imgBadClose' = c.bad
    /\ m_tag' = TagCleared
    /\ trace' = <<Ev("call:~TskAuto", 0, m_img_info, "void")>>
    /\ handles' = << >>
    /\ UNCHANGED <<l01, image, m_volFilterFlags, m_fileFilterFlags,
                   tsk_errno, stack, rv>>

\* TskAuto::setVolFilterFlags
setVolFilterFlags(vs_flags) ==
    /\ Idle
    /\ m_volFilterFlags' = vs_flags
    /\ trace' = <<Ev("call:setVolFilterFlags", 0, 0, "void")>>
    /\ handles' = << >>
    /\ UNCHANGED <<l01, image, m_img_info, m_tag, m_fileFilterFlags, tsk_errno,
                   stack, rv, imgLive, imgBadClose>>

\* TskAuto::setFileFilterFlags
setFileFilterFlags(file_flags) ==
    /\ Idle
    /\ m_fileFilterFlags' = file_flags
    /\ trace' = <<Ev("call:setFileFilterFlags", 0, 0, "void")>>
    /\ handles' = << >>
    /\ UNCHANGED <<l01, image, m_img_info, m_tag, m_volFilterFlags, tsk_errno,
                   stack, rv, imgLive, imgBadClose>>

\* ------------------------------------------------------ call and return
session == <<l01, image, m_img_info, m_tag, m_volFilterFlags,
             m_fileFilterFlags, imgLive, imgBadClose>>

\* the running function returns v to its caller, having logged evs
Return(v, evs) ==
    /\ stack' = Pop
    /\ rv' = v
    /\ trace' = trace \o evs

\* the running function calls down: it waits at pc newpc for the callee
Call(callee, newpc, evs) ==
    /\ stack' = Append(SetTop([Top EXCEPT !.pc = newpc]), callee)
    /\ rv' = NULL
    /\ trace' = trace \o evs

\* a caller of the public interface enters a traversal function
Enter(frame, e) ==
    /\ Idle
    /\ stack' = <<frame>>
    /\ trace' = <<e>>
    /\ handles' = << >>
    /\ rv' = NULL
    /\ UNCHANGED <<session, tsk_errno>>

ImgState == IF m_img_info # NULL THEN "img" ELSE "noimg"

Frame_findFilesInVs(a_start) ==
    [fn |-> "findFilesInVs", pc |-> "start", a_start |-> a_start,
     vs_info |-> NULL]
Frame_findFilesInFsRet(a_start) ==
    [fn |-> "findFilesInFsRet", pc |-> "start", a_start |-> a_start,
     fs_info |-> NULL]
Frame_findFilesInFs(a_start) ==
    [fn |-> "findFilesInFs", pc |-> "start", a_start |-> a_start]
Frame_findFilesInFs2(a_start, a_inum) ==
    [fn |-> "findFilesInFs2", pc |-> "start", a_start |-> a_start,
     a_inum |-> a_inum, fs_info |-> NULL]
Frame_findFilesInFsInt(a_fs_info, off, a_inum) ==
    [fn |-> "findFilesInFsInt", pc |-> "start", a_fs_info |-> a_fs_info,
     off |-> off, a_inum |-> a_inum]

CallFindFilesInImg ==
    Enter([fn |-> "findFilesInImg", pc |-> "start"],
          Ev("call:findFilesInImg", 0, 0, ImgState))
CallFindFilesInVs(a_start) ==
    Enter(Frame_findFilesInVs(a_start),
          Ev("call:findFilesInVs", a_start, 0, ImgState))
CallFindFilesInFsRet(a_start) ==
    Enter(Frame_findFilesInFsRet(a_start),
          Ev("call:findFilesInFsRet", a_start, 0, ImgState))
CallFindFilesInFs(a_start) ==
    Enter(Frame_findFilesInFs(a_start),
          Ev("call:findFilesInFs", a_start, 0, ImgState))
CallFindFilesInFs2(a_start, a_inum) ==
    Enter(Frame_findFilesInFs2(a_start, a_inum),
          Ev("call:findFilesInFs2", a_start, a_inum, ImgState))

\* a walker that returns without closing its file system handle
fsClose_Leak(hs, h) == hs

\* a walker that closes the handle it opened before it walks
fsOpen_ClosedEarly(hs, off) ==
    Append(hs, [kind |-> "fs", off |-> off, closes |-> 1])

\* lines 219-221 and 273-275: the handle tsk_fs_open_img returned is open
fsOpen(hs, off) == Append(hs, [kind |-> "fs", off |-> off, closes |-> 0])

\* tsk_vs_close / tsk_fs_close on handle h
vsClose(hs, h) == [hs EXCEPT ![h].closes = @ + 1]
fsClose(hs, h) == [hs EXCEPT ![h].closes = @ + 1]

\* ----------------------------------------------------- findFilesInImg
\* lines 109-115: precondition, then findFilesInVs(0)
findFilesInImg ==
    /\ Running("findFilesInImg", "start")
    /\ IF NoImage
       THEN Return(1, <<Ev("ret:findFilesInImg", 0, 0, "1")>>)
       ELSE Call(Frame_findFilesInVs(0), "vs_ret", << >>)
    /\ UNCHANGED <<session, tsk_errno, handles>>

\* the value findFilesInImg returns for the value findFilesInVs returned
findFilesInImgRet(vsret) == IF vsret # 0 THEN 1 ELSE 0

\* lines 115-120
findFilesInImg_ret ==
    /\ Running("findFilesInImg", "vs_ret")
    /\ Return(findFilesInImgRet(rv),
              <<Ev("ret:findFilesInImg", 0, 0, U8(findFilesInImgRet(rv)))>>)
    /\ UNCHANGED <<session, tsk_errno, handles>>

\* ------------------------------------------------------ findFilesInVs
\* tsk_error_reset: the last error after a reset of the last error err
tsk_error_reset(err) == "none"

\* a fallback that keeps the error of the failed probe
findFilesInVsProbeError_Kept(err) == err

\* line 184: the last error the fallback starts with, err being the error
\* the failed tsk_vs_open left
findFilesInVsProbeError(err) == tsk_error_reset(err)

\* a fallback that always probes the start of the image
findFilesInVsFallback_Image(a_start) == Frame_findFilesInFs(0)

\* line 185: the fallback call findFilesInFs(a_start)
findFilesInVsFallback(a_start) == Frame_findFilesInFs(a_start)

\* lines 166-192: precondition, tsk_vs_open, then either the fallback to
\* findFilesInFs(a_start) or the partition enumeration
findFilesInVs ==
    /\ Running("findFilesInVs", "start")
    /\ IF NoImage
       THEN /\ Return(1, <<Ev("ret:findFilesInVs", Top.a_start, 0, "1")>>)
            /\ UNCHANGED <<tsk_errno, handles>>
       ELSE IF ~VsAt(Top.a_start)
       THEN \* tsk_vs_open set the error, line 184 resets it
            /\ tsk_errno' = findFilesInVsProbeError("vs")
            /\ Call(findFilesInVsFallback(Top.a_start), "fs_ret",
                    <<Ev("vs_open_fail", Top.a_start, 0, "vs"),
                      Ev("error_reset", Top.a_start, 0, "none")>>)
            /\ UNCHANGED handles
       ELSE LET h == Len(handles) + 1 IN
            /\ handles' = Append(handles,
                   [kind |-> "vs", off |-> Top.a_start, closes |-> 0])
            /\ stack' = Append(
                   SetTop([Top EXCEPT !.pc = "walk_ret", !.vs_info = h]),
                   [fn |-> "tsk_vs_part_walk", pc |-> "loop", vs |-> h,
                    i |-> 1, last |-> Len(image.parts),
                    flags |-> m_volFilterFlags])
            /\ rv' = NULL
            /\ trace' = Log(Ev("vs_open", Top.a_start, h, "ok"))
            /\ UNCHANGED tsk_errno
    /\ UNCHANGED session

\* a volume walker that never reports failure
findFilesInVsRet_Swallow(r) == 0

\* the value findFilesInVs returns for the value its callee returned
findFilesInVsRet(r) == IF r # 0 THEN 1 ELSE 0

\* lines 185-188 and 198: after the fallback file-system walk
findFilesInVs_fsret ==
    /\ Running("findFilesInVs", "fs_ret")
    /\ Return(findFilesInVsRet(rv),
              <<Ev("ret:findFilesInVs", Top.a_start, 0,
                   U8(findFilesInVsRet(rv)))>>)
    /\ UNCHANGED <<session, tsk_errno, handles>>

\* lines 191-198: after the partition enumeration; the handle is closed on
\* both branches
findFilesInVs_walkret ==
    /\ Running("findFilesInVs", "walk_ret")
    /\ handles' = vsClose(handles, Top.vs_info)
    /\ Return(findFilesInVsRet(rv),
              <<Ev("vs_close", Top.a_start, Top.vs_info, "ok"),
                Ev("ret:findFilesInVs", Top.a_start, 0,
                   U8(findFilesInVsRet(rv)))>>)
    /\ UNCHANGED <<session, tsk_errno>>

\* ---------------------------------------------------- tsk_vs_part_walk
\* the first partition at or after index i whose flags match, or last + 1
RECURSIVE NextPart(_, _, _)
NextPart(i, last, flags) ==
    IF i > last THEN last + 1
    ELSE IF image.parts[i].flags \in flags THEN i
    ELSE NextPart(i + 1, last, flags)

\* a byte offset that is the product of the two values as numbers
PartOffset_Exact(part) == part.start * BlockSize

\* byte offset of a partition, lines 143-144: the product is computed in the
\* unsigned type of the sector address and converted to TSK_OFF_T
PartOffset(part) == ToOffT((part.start * BlockSize) % DaddrModulus)

\* the enumeration primitive: an empty table is a range error; otherwise the
\* callback is invoked on the matching partitions in ascending order
tsk_vs_part_walk ==
    /\ Running("tsk_vs_part_walk", "loop")
    /\ LET j == NextPart(Top.i, Top.last, Top.flags) IN
       IF Top.last = 0
       THEN /\ tsk_errno' = "vs"
            /\ Return(1, <<Ev("ret:tsk_vs_part_walk", 0, 0, "1")>>)
       ELSE IF j > Top.last
       THEN /\ Return(0, <<Ev("ret:tsk_vs_part_walk", 0, 0, "0")>>)
            /\ UNCHANGED tsk_errno
       ELSE /\ stack' = Append(
                   SetTop([Top EXCEPT !.pc = "cb_ret", !.i = j]),
                   [fn |-> "vsWalkCb", pc |-> "start", part |-> j])
            /\ rv' = NULL
            /\ trace' = Log(Ev("vsWalkCb", PartOffset(image.parts[j]), j,
                               "called"))
            /\ UNCHANGED tsk_errno
    /\ UNCHANGED <<session, handles>>

\* the primitive acts on the signal the callback returned
tsk_vs_part_walk_cbret ==
    /\ Running("tsk_vs_part_walk", "cb_ret")
    /\ IF rv = "TSK_WALK_CONT"
       THEN /\ stack' = SetTop([Top EXCEPT !.pc = "loop", !.i = @ + 1])
            /\ rv' = NULL
            /\ trace' = trace
       ELSE IF rv = "TSK_WALK_STOP"
       THEN Return(0, <<Ev("ret:tsk_vs_part_walk", 0, 0, "0")>>)
       ELSE Return(1, <<Ev("ret:tsk_vs_part_walk", 0, 0, "1")>>)
    /\ UNCHANGED <<session, tsk_errno, handles>>

\* ------------------------------------------------------------ vsWalkCb
\* a callback that treats only stop as a rejection
vsWalkCbFilter_SkipDescends(retval1) ==
    IF retval1 = "TSK_FILTER_STOP" THEN "TSK_WALK_STOP" ELSE "descend"

\* lines 137-141: what the callback does with the verdict of filterVol
vsWalkCbFilter(retval1) ==
    IF retval1 = "TSK_FILTER_SKIP" THEN "TSK_WALK_CONT"
    ELSE IF retval1 = "TSK_FILTER_STOP" THEN "TSK_WALK_STOP"
    ELSE "descend"

\* lines 128-144; retval1 is the verdict of the filterVol hook
vsWalkCb(retval1) ==
    /\ Running("vsWalkCb", "start")
    /\ LET part == image.parts[Top.part]
           off == PartOffset(part)
           e == Ev("filterVol", off, Top.part, retval1)
       IN
       \E tag \in TagReads :
       IF tag # TSK_AUTO_TAG
       THEN Return("TSK_WALK_STOP",
                   <<Ev("ret:vsWalkCb", off, Top.part, "TSK_WALK_STOP")>>)
       ELSE IF vsWalkCbFilter(retval1) # "descend"
       THEN Return(vsWalkCbFilter(retval1),
                   <<e, Ev("ret:vsWalkCb", off, Top.part,
                           vsWalkCbFilter(retval1))>>)
       ELSE Call(Frame_findFilesInFsRet(off), "fs_ret", <<e>>)
    /\ UNCHANGED <<session, tsk_errno, handles>>

\* a callback that passes an ordinary error on to the enumeration
vsWalkCbRet_ErrorAborts(retval2) ==
    IF retval2 = "TSK_STOP" THEN "TSK_WALK_STOP"
    ELSE IF retval2 # "TSK_OK" THEN "TSK_WALK_ERROR"
    ELSE "TSK_WALK_CONT"

\* a callback that drops the stop of the File System Walker
vsWalkCbRet_StopDropped(retval2) == "TSK_WALK_CONT"

\* lines 145-155: the signal returned for the outcome of findFilesInFsRet
vsWalkCbRet(retval2) ==
    IF retval2 = "TSK_STOP" THEN "TSK_WALK_STOP" ELSE "TSK_WALK_CONT"

\* lines 148-153: the outcomes after which the last error is reset
vsWalkCbResets(retval2) == retval2 # "TSK_STOP" /\ retval2 # "TSK_OK"

\* lines 145-155
vsWalkCb_ret ==
    /\ Running("vsWalkCb", "fs_ret")
    /\ LET part == image.parts[Top.part]
           off == PartOffset(part)
           r == Ev("ret:vsWalkCb", off, Top.part, vsWalkCbRet(rv))
       IN
       IF vsWalkCbResets(rv)
       THEN /\ tsk_errno' = tsk_error_reset(tsk_errno)
            /\ Return(vsWalkCbRet(rv),
                      <<Ev("error_reset", off, Top.part, "none"), r>>)
       ELSE /\ Return(vsWalkCbRet(rv), <<r>>)
            /\ UNCHANGED tsk_errno
    /\ UNCHANGED <<session, handles>>

\* --------------------------------------------------- findFilesInFsRet
\* lines 209-229: precondition, tsk_fs_open_img, then findFilesInFsInt on
\* the root directory
findFilesInFsRet ==
    /\ Running("findFilesInFsRet", "start")
    /\ \E noimg \in NoImageReads, rf \in ReadFails :
       IF noimg
       THEN /\ Return("TSK_ERR",
                 <<Ev("ret:findFilesInFsRet", Top.a_start, 0, "TSK_ERR")>>)
            /\ UNCHANGED <<tsk_errno, handles>>
       ELSE IF rf \/ FsAt(Top.a_start).kind = "none"
       THEN /\ tsk_errno' = "fs"
            /\ Return("TSK_ERR",
                 <<Ev("fs_open_fail", Top.a_start, 0, "fs"),
                   Ev("ret:findFilesInFsRet", Top.a_start, 0, "TSK_ERR")>>)
            /\ UNCHANGED handles
       ELSE LET h == Len(handles) + 1 IN
            /\ handles' = fsOpen(handles, Top.a_start)
            /\ stack' = Append(
                   SetTop([Top EXCEPT !.pc = "int_ret", !.fs_info = h]),
                   Frame_findFilesInFsInt(h, Top.a_start, RootInum))
            /\ rv' = NULL
            /\ trace' = Log(Ev("fs_open", Top.a_start, h, "ok"))
            /\ UNCHANGED tsk_errno
    /\ UNCHANGED session

\* lines 230-231: close the handle, return what findFilesInFsInt returned
findFilesInFsRet_ret ==
    /\ Running("findFilesInFsRet", "int_ret")
    /\ handles' = fsClose(handles, Top.fs_info)
    /\ Return(rv, <<Ev("fs_close", Top.a_start, Top.fs_info, "ok"),
                    Ev("ret:findFilesInFsRet", Top.a_start, 0, rv)>>)
    /\ UNCHANGED <<session, tsk_errno>>

\* ------------------------------------------- findFilesInFs(TSK_OFF_T)
\* line 245: the call
findFilesInFs ==
    /\ Running("findFilesInFs", "start")
    /\ Call(Frame_findFilesInFsRet(Top.a_start), "ret", << >>)
    /\ UNCHANGED <<session, tsk_errno, handles>>

\* a walker that reports every outcome but ok as failure
findFilesInFsMap_StopFails(retval) == IF retval # "TSK_OK" THEN 1 ELSE 0

\* lines 245-248: the 0/1 value for a three-valued outcome
findFilesInFsMap(retval) == IF retval = "TSK_ERR" THEN 1 ELSE 0

\* a two-argument walker that reports every outcome but ok as failure
findFilesInFs2Map_StopFails(retval) == IF retval # "TSK_OK" THEN 1 ELSE 0

\* lines 285-288: the same mapping in the two-argument entry point
findFilesInFs2Map(retval) == IF retval = "TSK_ERR" THEN 1 ELSE 0

\* lines 245-248
findFilesInFs_ret ==
    /\ Running("findFilesInFs", "ret")
    /\ Return(findFilesInFsMap(rv),
              <<Ev("ret:findFilesInFs", Top.a_start, 0,
                   U8(findFilesInFsMap(rv)))>>)
    /\ UNCHANGED <<session, tsk_errno, handles>>

\* ------------------------------- findFilesInFs(TSK_OFF_T, TSK_INUM_T)
\* lines 263-283
findFilesInFs2 ==
    /\ Running("findFilesInFs2", "start")
    /\ IF NoImage
       THEN /\ Return(1, <<Ev("ret:findFilesInFs2", Top.a_start, 0, "1")>>)
            /\ UNCHANGED <<tsk_errno, handles>>
       ELSE IF FsAt(Top.a_start).kind = "none"
       THEN /\ tsk_errno' = "fs"
            /\ Return(1,
                 <<Ev("fs_open_fail", Top.a_start, 0, "fs"),
                   Ev("ret:findFilesInFs2", Top.a_start, 0, "1")>>)
            /\ UNCHANGED handles
       ELSE LET h == Len(handles) + 1 IN
            /\ handles' = fsOpen(handles, Top.a_start)
            /\ stack' = Append(
                   SetTop([Top EXCEPT !.pc = "int_ret", !.fs_info = h]),
                   Frame_findFilesInFsInt(h, Top.a_start, Top.a_inum))
            /\ rv' = NULL
            /\ trace' = Log(Ev("fs_open", Top.a_start, h, "ok"))
            /\ UNCHANGED tsk_errno
    /\ UNCHANGED session

\* lines 284-288
findFilesInFs2_ret ==
    /\ Running("findFilesInFs2", "int_ret")
    /\ handles' = fsClose(handles, Top.fs_info)
    /\ Return(findFilesInFs2Map(rv),
              <<Ev("fs_close", Top.a_start, Top.fs_info, "ok"),
                Ev("ret:findFilesInFs2", Top.a_start, 0,
                   U8(findFilesInFs2Map(rv)))>>)
    /\ UNCHANGED <<session, tsk_errno>>

\* --------------------------------------------------- findFilesInFsInt
\* a walker that walks a file system its filter asked to skip
findFilesInFsIntFilter_SkipWalks(retval) ==
    IF retval = "TSK_FILTER_STOP" THEN "TSK_STOP" ELSE "walk"

\* a walker for which every verdict but stop skips the file system
findFilesInFsIntFilter_ContSkips(retval) ==
    IF retval = "TSK_FILTER_STOP" THEN "TSK_STOP" ELSE "TSK_OK"

\* lines 322-325: what the walker does with the verdict of filterFs
findFilesInFsIntFilter(retval) ==
    IF retval = "TSK_FILTER_STOP" THEN "TSK_STOP"
    ELSE IF retval = "TSK_FILTER_SKIP" THEN "TSK_OK"
    ELSE "walk"

\* a walker that ignores the directory-walk setting of the session
findFilesInFsIntFlags_Default(setting) == {TSK_FS_DIR_WALK_FLAG_RECURSE}

\* lines 329-330: the flags handed to tsk_fs_dir_walk, setting being the
\* value read from m_fileFilterFlags
findFilesInFsIntFlags(setting) ==
    {TSK_FS_DIR_WALK_FLAG_RECURSE} \cup setting

\* lines 318-330; retval is the verdict of the filterFs hook
findFilesInFsInt(retval) ==
    /\ Running("findFilesInFsInt", "start")
    /\ LET e == Ev("filterFs", Top.off, Top.a_fs_info, retval) IN
       \E setting \in FileFlagReads :
       IF findFilesInFsIntFilter(retval) # "walk"
       THEN Return(findFilesInFsIntFilter(retval),
                   <<e, Ev("ret:findFilesInFsInt", Top.off, Top.a_fs_info,
                           findFilesInFsIntFilter(retval))>>)
       ELSE Call([fn |-> "tsk_fs_dir_walk", pc |-> "loop",
                  fs |-> Top.a_fs_info, off |-> Top.off,
                  a_inum |-> Top.a_inum, j |-> 1,
                  flags |-> findFilesInFsIntFlags(setting)],
                 "walk_ret", <<e>>)
    /\ UNCHANGED <<session, tsk_errno, handles>>

\* lines 328-337: the outcome for the value tsk_fs_dir_walk returned
findFilesInFsIntRet(walkret) == IF walkret # 0 THEN "TSK_ERR" ELSE "TSK_OK"

\* lines 328-337
findFilesInFsInt_ret ==
    /\ Running("findFilesInFsInt", "walk_ret")
    /\ Return(findFilesInFsIntRet(rv),
              <<Ev("ret:findFilesInFsInt", Top.off, Top.a_fs_info,
                   findFilesInFsIntRet(rv))>>)
    /\ UNCHANGED <<session, tsk_errno, handles>>

\* ----------------------------------------------------- tsk_fs_dir_walk
\* the files a walk with these flags yields: every file of the model is an
\* allocated entry, and a walk asked for neither kind yields both
DirWalkCount(fs, flags) ==
    IF TSK_FS_DIR_WALK_FLAG_ALLOC \in flags
       \/ TSK_FS_DIR_WALK_FLAG_UNALLOC \notin flags
    THEN fs.n ELSE 0

\* the enumeration primitive: it fails on an unreadable tree or a start
\* address that is no directory; otherwise the callback is invoked once per
\* file, in order
tsk_fs_dir_walk ==
    /\ Running("tsk_fs_dir_walk", "loop")
    /\ LET fs == FsAt(Top.off) IN
       \E rf \in ReadFails :
       IF rf \/ fs.kind = "corrupt" \/ Top.a_inum # RootInum
       THEN /\ tsk_errno' = "fs"
            /\ Return(1, <<Ev("ret:tsk_fs_dir_walk", Top.off, Top.fs, "1")>>)
       ELSE IF Top.j > DirWalkCount(fs, Top.flags)
       THEN /\ Return(0, <<Ev("ret:tsk_fs_dir_walk", Top.off, Top.fs, "0")>>)
            /\ UNCHANGED tsk_errno
       ELSE /\ Call([fn |-> "dirWalkCb", pc |-> "start", fs |-> Top.fs,
                     off |-> Top.off, file |-> Top.j],
                    "cb_ret",
                    <<Ev("dirWalkCb", Top.off, Top.j, "called")>>)
            /\ UNCHANGED tsk_errno
    /\ UNCHANGED <<session, handles>>

\* the primitive acts on the signal the callback returned
tsk_fs_dir_walk_cbret ==
    /\ Running("tsk_fs_dir_walk", "cb_ret")
    /\ IF rv = "TSK_WALK_CONT"
       THEN /\ stack' = SetTop([Top EXCEPT !.pc = "loop", !.j = @ + 1])
            /\ rv' = NULL
            /\ trace' = trace
       ELSE IF rv = "TSK_WALK_STOP"
       THEN Return(0, <<Ev("ret:tsk_fs_dir_walk", Top.off, Top.fs, "0")>>)
       ELSE Return(1, <<Ev("ret:tsk_fs_dir_walk", Top.off, Top.fs, "1")>>)
    /\ UNCHANGED <<session, tsk_errno, handles>>

\* ----------------------------------------------------------- dirWalkCb
\* a dispatcher that walks on after a corrupt file
dirWalkCbMap_CorContinues(retval) ==
    IF retval = "TSK_STOP" THEN "TSK_WALK_STOP"
    ELSE IF retval = "TSK_ERR" THEN "TSK_WALK_ERROR"
    ELSE "TSK_WALK_CONT"

\* lines 304-311: the signal for the result of processFile
dirWalkCbMap(retval) ==
    IF retval # "TSK_OK"
    THEN IF retval = "TSK_STOP" THEN "TSK_WALK_STOP" ELSE "TSK_WALK_ERROR"
    ELSE "TSK_WALK_CONT"

\* lines 296-312; retval is the result of the processFile hook
dirWalkCb(retval) ==
    /\ Running("dirWalkCb", "start")
    /\ \E tag \in TagReads :
       IF tag # TSK_AUTO_TAG
       THEN Return("TSK_WALK_STOP",
                 <<Ev("ret:dirWalkCb", Top.off, Top.file, "TSK_WALK_STOP")>>)
       ELSE Return(dirWalkCbMap(retval),
                 <<Ev("processFile", Top.off, Top.file, retval),
                   Ev("ret:dirWalkCb", Top.off, Top.file,
                      dirWalkCbMap(retval))>>)
    /\ UNCHANGED <<session, tsk_errno, handles>>

\* ------------------------------------------------------------ the system
Next ==
    \/ \E ok \in BOOLEAN : openImage(ok)
    \/ closeImage
    \/ Destructor
    \/ \E f \in VolFlagSets : setVolFilterFlags(f)
    \/ \E f \in FileFlagSets : setFileFilterFlags(f)
    \/ CallFindFilesInImg
    \/ \E a \in Offsets : CallFindFilesInVs(a)
    \/ \E a \in Offsets : CallFindFilesInFsRet(a)
    \/ \E a \in Offsets : CallFindFilesInFs(a)
    \/ \E a \in Offsets, n \in {RootInum, BadInum} : CallFindFilesInFs2(a, n)
    \/ findFilesInImg
    \/ findFilesInImg_ret
    \/ findFilesInVs
    \/ findFilesInVs_fsret
    \/ findFilesInVs_walkret
    \/ tsk_vs_part_walk
    \/ tsk_vs_part_walk_cbret
    \/ \E r \in TSK_FILTER_ENUM : vsWalkCb(r)
    \/ vsWalkCb_ret
    \/ findFilesInFsRet
    \/ findFilesInFsRet_ret
    \/ findFilesInFs
    \/ findFilesInFs_ret
    \/ findFilesInFs2
    \/ findFilesInFs2_ret
    \/ \E r \in TSK_FILTER_ENUM : findFilesInFsInt(r)
    \/ findFilesInFsInt_ret
    \/ tsk_fs_dir_walk
    \/ tsk_fs_dir_walk_cbret
    \/ \E r \in TSK_RETVAL_ENUM : dirWalkCb(r)

Spec == Init /\ [][Next]_vars

\* ---------------------------------------------------- processAttributes
\* an enumeration that goes on after an attribute hook reported an error
processAttributesExit_OnlyStop(retval) == retval = "TSK_STOP"

\* line 357: the results of processAttribute that end the enumeration
processAttributesExit(retval) == retval # "TSK_OK"

\* a processFile hook that hands a file with count attributes to
\* processAttributes (tsk_fs_file_attr_getsize, line 353) and returns what
\* that returns
processFile_processAttributes(count) ==
    /\ Running("dirWalkCb", "start")
    /\ m_tag = TSK_AUTO_TAG
    /\ Call([fn |-> "processAttributes", pc |-> "loop", off |-> Top.off,
              file |-> Top.file, count |-> count, i |-> 0],
            "hook_ret",
            <<Ev("call:processAttributes", Top.off, count, "called")>>)
    /\ UNCHANGED <<session, tsk_errno, handles>>

\* lines 349-361, one turn of the loop; retval is the result of the
\* processAttribute hook on attribute i
processAttributes(retval) ==
    /\ Running("processAttributes", "loop")
    /\ IF Top.i < Top.count
       THEN LET e == Ev("processAttribute", Top.off, Top.i, retval) IN
            IF processAttributesExit(retval)
            THEN Return(retval,
                        <<e, Ev("ret:processAttributes", Top.off, Top.count,
                                retval)>>)
            ELSE /\ stack' = SetTop([Top EXCEPT !.i = @ + 1])
                 /\ rv' = NULL
                 /\ trace' = Log(e)
       ELSE /\ retval = "TSK_OK"
            /\ Return("TSK_OK",
                      <<Ev("ret:processAttributes", Top.off, Top.count,
                           "TSK_OK")>>)
    /\ UNCHANGED <<session, tsk_errno, handles>>

\* lines 303-311, for a processFile hook that returned the result of
\* processAttributes
dirWalkCb_processFileRet ==
    /\ Running("dirWalkCb", "hook_ret")
    /\ Return(dirWalkCbMap(rv),
              <<Ev("processFile", Top.off, Top.file, rv),
                Ev("ret:dirWalkCb", Top.off, Top.file, dirWalkCbMap(rv))>>)
    /\ UNCHANGED <<session, tsk_errno, handles>>

\* walks of a bare file system whose processFile hook may enumerate the
\* attributes of the file
InitAttr == Init /\ ~image.vs

NextAttr ==
    \/ \E ok \in BOOLEAN : openImage(ok)
    \/ \E a \in Offsets : CallFindFilesInFsRet(a)
    \/ findFilesInFsRet
    \/ findFilesInFsRet_ret
    \/ \E r \in TSK_FILTER_ENUM : findFilesInFsInt(r)
    \/ findFilesInFsInt_ret
    \/ tsk_fs_dir_walk
    \/ tsk_fs_dir_walk_cbret
    \/ \E r \in TSK_RETVAL_ENUM : dirWalkCb(r)
    \/ \E c \in 0..MaxAttrs : processFile_processAttributes(c)
    \/ \E r \in TSK_RETVAL_ENUM : processAttributes(r)
    \/ dirWalkCb_processFileRet

SpecAttr == InitAttr /\ [][NextAttr]_vars

\* --------------------------------------- a hook that destroys the session
\* a processFile hook that destroys the session (~TskAuto, lines 30-34) and
\* then returns retval to dirWalkCb (lines 303-311)
processFile_Destructor(retval) ==
    /\ Running("dirWalkCb", "start")
    /\ m_tag = TSK_AUTO_TAG
    /\ LET c == closeImageBody(ImgSt)
       IN /\ m_img_info' = c.img
          /\ imgLive' = c.live
          /\ imgBadClose' = c.bad
    /\ m_tag' = TagCleared
    /\ Return(dirWalkCbMap(retval),
              <<Ev("~TskAuto", Top.off, Top.file, "void"),
                Ev("processFile", Top.off, Top.file, retval),
                Ev("ret:dirWalkCb", Top.off, Top.file,
                   dirWalkCbMap(retval))>>)
    /\ UNCHANGED <<l01, image, m_volFilterFlags, m_fileFilterFlags, tsk_errno,
                   handles>>

\* findFilesInImg on an image with a volume system, with a processFile hook
\* that may destroy the session
InitDestroy == Init /\ image.vs

NextDestroy ==
    \/ \E ok \in BOOLEAN : openImage(ok)
    \/ CallFindFilesInImg
    \/ findFilesInImg
    \/ findFilesInImg_ret
    \/ findFilesInVs
    \/ findFilesInVs_walkret
    \/ tsk_vs_part_walk
    \/ tsk_vs_part_walk_cbret
    \/ \E r \in TSK_FILTER_ENUM : vsWalkCb(r)
    \/ vsWalkCb_ret
    \/ findFilesInFsRet
    \/ findFilesInFsRet_ret
    \/ \E r \in TSK_FILTER_ENUM : findFilesInFsInt(r)
    \/ findFilesInFsInt_ret
    \/ tsk_fs_dir_walk
    \/ tsk_fs_dir_walk_cbret
    \/ \E r \in TSK_RETVAL_ENUM : dirWalkCb(r)
    \/ \E r \in TSK_RETVAL_ENUM : processFile_Destructor(r)

SpecDestroy == InitDestroy /\ [][NextDestroy]_vars

\* ------------------------------------ partitions at any sector address
\* findFilesInImg on an image whose volume system has one partition, which
\* starts at any address a sector address can hold
InitOffset == image \in OffsetImages /\ NewSession /\ NoExtract

NextOffset ==
    \/ \E ok \in BOOLEAN : openImage(ok)
    \/ CallFindFilesInImg
    \/ findFilesInImg
    \/ findFilesInImg_ret
    \/ findFilesInVs
    \/ findFilesInVs_walkret
    \/ tsk_vs_part_walk
    \/ tsk_vs_part_walk_cbret
    \/ \E r \in TSK_FILTER_ENUM : vsWalkCb(r)
    \/ vsWalkCb_ret
    \/ findFilesInFsRet
    \/ findFilesInFsRet_ret
    \/ \E r \in TSK_FILTER_ENUM : findFilesInFsInt(r)
    \/ findFilesInFsInt_ret
    \/ tsk_fs_dir_walk
    \/ tsk_fs_dir_walk_cbret
    \/ \E r \in TSK_RETVAL_ENUM : dirWalkCb(r)

SpecOffset == InitOffset /\ [][NextOffset]_vars

\* ------------------------------------------------------- TskL01Extract
\* bounds: the entries of a container, the calls made on one object
MaxEntries == 2
MaxCalls == 3

\* An entry of a container has a parent (0 for the root entry), a type (a
\* file or a directory) and a size; an entry lies after its parent.  A
\* container without entries has no root entry.
EntryKinds == [type : {"f", "d"}, size : {0, 1}]

ParentMaps(n) == {p \in [1..n -> 0..n] :
                     \A i \in 1..n : IF i = 1 THEN p[i] = 0
                                     ELSE p[i] \in 1..(i - 1)}

Containers == UNION {
    {[i \in 1..n |-> [parent |-> p[i], type |-> k[i].type,
                       size |-> k[i].size]] :
        p \in ParentMaps(n), k \in [1..n -> EntryKinds]} : n \in 0..MaxEntries}

\* the names open(imageFile) is called with
ImageFiles == {"a.L01"}

\* What fails during one open, if anything: the open of the image, the read
\* of the root entry or of its name, for entry i the read of its name, type
\* or size ("meta"), the read of its data ("read"), the lookup of it as a
\* child ("sub"), the registration of the file ("addinfo") or the save of
\* its data ("save").
Faults == {<<"none", 0>>, <<"open", 0>>, <<"root", 0>>, <<"rootname", 0>>}
          \cup ({"meta", "read", "sub", "addinfo", "save"}
                \X (1..MaxEntries))

\* What an operation with undefined behaviour (a second delete[] of a
\* buffer, a read of a released buffer or of an uninitialized file id) does
\* to the rest of the call: nothing visible, an exception, or the end of
\* the process.
UbOutcomes == {"ok", "throw", "abort"}

\* the children of an entry, in the order of their index
ChildSeq(parent) ==
    SelectSeq([i \in 1..Len(container) |-> i],
              LAMBDA i : container[i].parent = parent)

\* lines 179-213.  st holds m_archivedFiles, the heap and whether an
\* exception is in flight.
RECURSIVE traverse(_, _, _), traverseChildren(_, _, _)
traverse(node, st, fault) ==
    LET e == container[node]
        \* line 285: new char[dataSize], only for a size above 0
        hp == IF e.size > 0 THEN Append(st.heap, 0) ELSE st.heap
        buffer == IF e.size > 0 THEN Len(hp) ELSE NULL
        fileInfo == [entry |-> node, type |-> e.type, size |-> e.size,
                     dataBuf |-> buffer]
    IN IF fault = <<"meta", node>>
       THEN [st EXCEPT !.exc = TRUE]
       ELSE IF e.size > 0 /\ fault = <<"read", node>>
       THEN [st EXCEPT !.heap = hp, !.exc = TRUE]
       ELSE traverseChildren(ChildSeq(node),
                [files |-> Append(st.files, fileInfo), heap |-> hp,
                 exc |-> FALSE],
                fault)

\* lines 196-211: the loop over the sub file entries
traverseChildren(kids, st, fault) ==
    IF kids = << >> THEN st
    ELSE IF fault = <<"sub", Head(kids)>> THEN [st EXCEPT !.exc = TRUE]
    ELSE LET s2 == traverse(Head(kids), st, fault)
         IN IF s2.exc THEN s2 ELSE traverseChildren(Tail(kids), s2, fault)

\* lines 369-442: the loop of extractFiles from element k on; the result is
\* what extractFiles returns, or that the process ended
RECURSIVE extractLoop(_, _, _, _, _)
extractLoop(files, k, hp, fault, ub) ==
    IF k > Len(files) THEN [ret |-> 0, abort |-> FALSE]
    ELSE LET it == files[k]
             \* line 439: saveFile reads the buffer of the element
             stale == it.dataBuf # NULL /\ hp[it.dataBuf] > 0
             \* lines 417-433: a failed addDerivedFileInfo is logged and
             \* leaves fileId without a value
             noId == fault = <<"addinfo", it.entry>>
         IN IF it.type # "f" THEN extractLoop(files, k + 1, hp, fault, ub)
            ELSE IF it.dataBuf = NULL
            THEN extractLoop(files, k + 1, hp, fault, ub)
            ELSE IF (stale \/ noId) /\ ub = "abort"
            THEN [ret |-> 0, abort |-> TRUE]
            ELSE IF (stale \/ noId) /\ ub = "throw"
            THEN [ret |-> -1, abort |-> FALSE]
            ELSE IF fault = <<"save", it.entry>>
            THEN [ret |-> -1, abort |-> FALSE]
            ELSE extractLoop(files, k + 1, hp, fault, ub)

\* lines 327-465: every exception is caught and turned into -1
extractFiles(files, img, hp, fault, ub) ==
    IF img = NULL THEN [ret |-> -1, abort |-> FALSE]
    ELSE extractLoop(files, 1, hp, fault, ub)

\* lines 144 and 175: the value of extractFiles() is dropped
openContainerRet(extracted) == 0

\* lines 103-176: the object after openContainer, the heap, the value
\* returned, the step that failed and what extractFiles returned
openContainer(obj, hp, fault, ub) ==
    LET opened == [obj EXCEPT !.m_img_info = 1]
        t == traverse(1, [files |-> obj.m_archivedFiles, heap |-> hp,
                          exc |-> FALSE], fault)
        walked == [opened EXCEPT !.m_archivedFiles = t.files]
        x == extractFiles(t.files, opened.m_img_info, t.heap, fault, ub)
        R(o, h, r, f, xr) == [obj |-> o, heap |-> h, ret |-> r,
                              failed |-> f, extracted |-> xr]
    IN IF fault[1] = "open"
       THEN R([obj EXCEPT !.m_img_info = NULL], hp, -1, "open", 0)
       ELSE IF fault[1] = "root" THEN R(opened, hp, -1, "root", 0)
       ELSE IF container = << >> THEN R(opened, hp, 0, "none", 0)
       ELSE IF fault[1] = "rootname" THEN R(opened, hp, -1, "rootname", 0)
       ELSE IF t.exc THEN R(walked, t.heap, -1, "traverse", 0)
       ELSE IF x.abort
       THEN R([walked EXCEPT !.state = "aborted"], t.heap, 0, "abort", 0)
       ELSE R(walked, t.heap, openContainerRet(x.ret),
              IF x.ret = 0 THEN "none" ELSE "extract", x.ret)

\* lines 66-70: delete[] of the buffer of every element of m_archivedFiles
RECURSIVE ReleaseAll(_, _, _)
ReleaseAll(files, k, hp) ==
    IF k > Len(files) THEN hp
    ELSE ReleaseAll(files, k + 1,
            IF files[k].dataBuf = NULL THEN hp
            ELSE [hp EXCEPT ![files[k].dataBuf] = @ + 1])

\* some buffer has been released more than once
DoubleFree(hp) == \E b \in 1..Len(hp) : hp[b] > 1

\* lines 58-73: the object and the heap after close()
closeBody(obj, hp, ub) ==
    LET released == ReleaseAll(obj.m_archivedFiles, 1, hp)
    IN [obj |-> [obj EXCEPT
                    !.m_img_info = NULL,
                    !.m_containerFilename = "",
                    !.state = IF DoubleFree(released) /\ ub = "abort"
                              THEN "aborted" ELSE @],
        heap |-> released]

\* the object can be called: it is not destroyed, the process has not ended
Callable == extract.state = "live" /\ Len(l01log) < MaxCalls

LogCall(c, r, f, xr) ==
    Append(l01log, [call |-> c, ret |-> r, failed |-> f, extracted |-> xr])

\* TskL01Extract::close(), lines 58-73
L01_close(ub) ==
    /\ Callable
    /\ LET c == closeBody(extract, heap, ub)
       IN /\ extract' = c.obj
          /\ heap' = c.heap
          /\ l01log' = LogCall("close", 0,
                          IF c.obj.state = "aborted" THEN "abort" ELSE "none",
                          0)
    /\ UNCHANGED <<auto, container>>

\* TskL01Extract::~TskL01Extract(), lines 52-55
L01_Destructor(ub) ==
    /\ Callable
    /\ LET c == closeBody(extract, heap, ub)
       IN /\ extract' = [c.obj EXCEPT
                            !.state = IF @ = "aborted" THEN @
                                      ELSE "destroyed"]
          /\ heap' = c.heap
          /\ l01log' = LogCall("~TskL01Extract", 0,
                          IF c.obj.state = "aborted" THEN "abort" ELSE "none",
                          0)
    /\ UNCHANGED <<auto, container>>

\* TskL01Extract::open(const TSK_TCHAR *imageFile), lines 79-86
L01_open(imageFile, fault, ub) ==
    /\ Callable
    /\ LET c == IF extract.m_containerFilename # ""
                THEN closeBody(extract, heap, ub)
                ELSE [obj |-> extract, heap |-> heap]
           o == openContainer(
                    [c.obj EXCEPT !.m_containerFilename = imageFile],
                    c.heap, fault, ub)
       IN IF c.obj.state = "aborted"
          THEN /\ extract' = c.obj
               /\ heap' = c.heap
               /\ l01log' = LogCall("open", 0, "abort", 0)
          ELSE /\ extract' = o.obj
               /\ heap' = o.heap
               /\ l01log' = LogCall("open", o.ret, o.failed, o.extracted)
    /\ UNCHANGED <<auto, container>>

\* one extractor object on one container file
InitL01 ==
    /\ image = [vs |-> FALSE, fs0 |-> [kind |-> "none", n |-> 0],
                parts |-> << >>]
    /\ NewSession
    /\ container \in Containers
    /\ NewExtract

NextL01 ==
    \/ \E f \in ImageFiles, fault \in Faults, ub \in UbOutcomes :
          L01_open(f, fault, ub)
    \/ \E ub \in UbOutcomes : L01_close(ub)
    \/ \E ub \in UbOutcomes : L01_Destructor(ub)

SpecL01 == InitL01 /\ [][NextL01]_vars

\* ------------------------------------------------ setters called by hooks
\* the session is inside one of its hooks: filterVol, filterFs or
\* processFile has been called and has not returned yet
InHook ==
    /\ m_tag = TSK_AUTO_TAG
    /\ \/ Running("vsWalkCb", "start")
       \/ Running("findFilesInFsInt", "start")
       \/ Running("dirWalkCb", "start")

SetterEvents == {"setVolFilterFlags", "setFileFilterFlags"}

\* the setter calls the hooks of the current traversal have made
HookSets == Cardinality({k \in 1..Len(trace) : trace[k].ev \in SetterEvents})

\* TskAuto::setVolFilterFlags called from inside a hook, to change the
\* setting; the event records the setting replaced and the new one
Hook_setVolFilterFlags(vs_flags) ==
    /\ InHook
    /\ HookSets < MaxHookSets
    /\ vs_flags # m_volFilterFlags
    /\ m_volFilterFlags' = vs_flags
    /\ trace' = Log(Ev("setVolFilterFlags", m_volFilterFlags, vs_flags,
                       "void"))
    /\ UNCHANGED <<l01, image, m_img_info, m_tag, m_fileFilterFlags, tsk_errno,
                   stack, rv, handles, imgLive, imgBadClose>>

\* TskAuto::setFileFilterFlags called from inside a hook
Hook_setFileFilterFlags(file_flags) ==
    /\ InHook
    /\ HookSets < MaxHookSets
    /\ file_flags # m_fileFilterFlags
    /\ m_fileFilterFlags' = file_flags
    /\ trace' = Log(Ev("setFileFilterFlags", m_fileFilterFlags, file_flags,
                       "void"))
    /\ UNCHANGED <<l01, image, m_img_info, m_tag, m_volFilterFlags, tsk_errno,
                   stack, rv, handles, imgLive, imgBadClose>>

\* findFilesInImg on an image with a volume system whose partitions are
\* unallocated or hold a readable file system; every hook lets the traversal
\* go on, and may change the filter settings before it returns
InitSetters ==
    /\ Init
    /\ image.vs
    /\ \A i \in 1..Len(image.parts) :
          image.parts[i].flags = TSK_VS_PART_FLAG_ALLOC
          => image.parts[i].fs.kind = "ok"

NextSetters ==
    \/ \E ok \in BOOLEAN : openImage(ok)
    \/ \E f \in VolFlagSets : setVolFilterFlags(f)
    \/ \E f \in FileFlagSets : setFileFilterFlags(f)
    \/ CallFindFilesInImg
    \/ findFilesInImg
    \/ findFilesInImg_ret
    \/ findFilesInVs
    \/ findFilesInVs_walkret
    \/ tsk_vs_part_walk
    \/ tsk_vs_part_walk_cbret
    \/ vsWalkCb("TSK_FILTER_CONT")
    \/ vsWalkCb_ret
    \/ findFilesInFsRet
    \/ findFilesInFsRet_ret
    \/ findFilesInFsInt("TSK_FILTER_CONT")
    \/ findFilesInFsInt_ret
    \/ tsk_fs_dir_walk
    \/ tsk_fs_dir_walk_cbret
    \/ dirWalkCb("TSK_OK")
    \/ \E f \in VolFlagSets : Hook_setVolFilterFlags(f)
    \/ \E f \in FileFlagSets : Hook_setFileFilterFlags(f)

SpecSetters == InitSetters /\ [][NextSetters]_vars

\* ====================================================================
\* Properties
\* ====================================================================
TraceIdx == 1..Len(trace)
Called(fn) == trace # << >> /\ trace[1].ev = fn
Done(fn) == stack = << >> /\ Called(fn)
InVolumeWalk == Called("call:findFilesInImg") \/ Called("call:findFilesInVs")
HookEvents == {"filterVol", "filterFs", "processFile"}
FsEvents == {"fs_open", "fs_open_fail", "filterFs", "dirWalkCb",
             "processFile"}
PartEvents == {"vsWalkCb", "filterVol"} \cup FsEvents
AllClosedOnce == \A h \in 1..Len(handles) : handles[h].closes = 1

\* C1: in a traversal started by findFilesInImg / findFilesInVs, once
\* processFile has returned stop no further processFile call is made, in the
\* same file system or in a later partition, and when the traversal has
\* returned every volume-system and file-system handle was closed exactly once.
C1_StopEndsTraversal ==
    InVolumeWalk =>
       /\ \A k \in TraceIdx :
             (trace[k].ev = "processFile" /\ trace[k].r = "TSK_STOP")
             => \A m \in (k + 1)..Len(trace) : trace[m].ev # "processFile"
       /\ (stack = << >> => AllClosedOnce)

\* the results processFile returned for the files of the file system at off
HookResults(off) ==
    {trace[k].r : k \in {m \in TraceIdx : trace[m].ev = "processFile"
                                           /\ trace[m].off = off}}

\* C2: the outcome findFilesInFsInt / findFilesInFsRet returns after a
\* directory walk is TSK_STOP when a processFile call returned stop, TSK_ERR
\* when one returned another non-success, and TSK_OK when the walk completed
\* with every call returning ok.
C2_WalkerOutcome ==
    \A k \in TraceIdx :
       (trace[k].ev = "ret:findFilesInFsInt"
        /\ trace[k - 1].ev = "ret:tsk_fs_dir_walk")
       => LET res == HookResults(trace[k].off) IN
          /\ "TSK_STOP" \in res => trace[k].r = "TSK_STOP"
          /\ (res \ {"TSK_OK", "TSK_STOP"}) # {} => trace[k].r = "TSK_ERR"
          /\ (res \subseteq {"TSK_OK"} /\ trace[k - 1].r = "0")
             => trace[k].r = "TSK_OK"

StopVerdict(e) ==
    \/ e.ev \in {"filterVol", "filterFs"} /\ e.r = "TSK_FILTER_STOP"
    \/ e.ev = "processFile" /\ e.r = "TSK_STOP"
SomeStop == \E k \in TraceIdx : StopVerdict(trace[k])
TopLevelWalks == {"call:findFilesInImg", "call:findFilesInVs",
                  "call:findFilesInFs", "call:findFilesInFs2"}
TopLevelDone == stack = << >> /\ trace # << >> /\ trace[1].ev \in TopLevelWalks

\* C3 (as claimed): a top-level walk in which a filter or the per-file hook
\* returned stop returns a third outcome, stopped, that is neither the
\* success value 0 nor the failure value 1.
C3_StoppedIsDistinct ==
    (TopLevelDone /\ SomeStop) => rv \notin {0, 1}

\* C3 (amended): a top-level walk returns 0 or 1, and a walk in which a
\* filter or the per-file hook returned stop returns 0, the value of a walk
\* that ran to completion.
C3_StopReturnsSuccess ==
    TopLevelDone => /\ rv \in {0, 1}
                    /\ SomeStop => rv = 0

C3_Witness ==
    /\ Done("call:findFilesInImg")
    /\ rv = 0
    /\ \E k \in TraceIdx : trace[k].ev = "filterVol" /\ StopVerdict(trace[k])

\* the event at k is the return of a File System Walker call made by the
\* partition callback with an ordinary error
PartitionError(k) ==
    /\ trace[k].ev = "ret:findFilesInFsRet"
    /\ trace[k].r = "TSK_ERR"
    /\ \E m \in 1..(k - 1) : trace[m].ev = "filterVol"
                             /\ trace[m].off = trace[k].off

\* the partition the enumeration turns to after partition i
Following(i) == NextPart(i + 1, Len(image.parts), m_volFilterFlags)

\* C4: when findFilesInFsRet returns an ordinary error for partition i, the
\* partition callback resets the last error and returns continue, the
\* enumeration goes on to the next matching partition (or ends normally when
\* there is none), and the last error is still clear when that partition has
\* been filtered and is about to be probed.
C4_ErrorAbsorbed ==
    \A k \in TraceIdx :
       PartitionError(k) =>
       LET i == trace[k].off \div BlockSize IN
          /\ Len(trace) > k =>
                /\ Len(trace) >= k + 2
                /\ trace[k + 1].ev = "error_reset"
                /\ trace[k + 2].ev = "ret:vsWalkCb"
                /\ trace[k + 2].r = "TSK_WALK_CONT"
          /\ Len(trace) > k + 2 =>
                IF Following(i) <= Len(image.parts)
                THEN trace[k + 3].ev = "vsWalkCb"
                     /\ trace[k + 3].n = Following(i)
                ELSE trace[k + 3].ev = "ret:tsk_vs_part_walk"
                     /\ trace[k + 3].r = "0"
          /\ (Len(trace) > k /\ Len(trace) <= k + 4) => tsk_errno = "none"

C4_Witness ==
    \E k \in TraceIdx :
       /\ PartitionError(k)
       /\ Len(trace) = k + 4
       /\ trace[k + 4].ev = "filterVol"
       /\ trace[k + 4].r = "TSK_FILTER_CONT"
       /\ Running("findFilesInFsRet", "start")

\* the traversal frame that holds handle h in its local variable
Owns(f, h) ==
    \/ f.fn = "findFilesInVs" /\ f.vs_info = h
    \/ f.fn \in {"findFilesInFsRet", "findFilesInFs2"} /\ f.fs_info = h

\* C5: every volume-system and file-system handle is closed at most once, it
\* is open exactly while the call that opened it is still running, and so it
\* has been closed exactly once when that call has returned, whatever the
\* exit path.
C5_HandlesClosedOnce ==
    \A h \in 1..Len(handles) :
       /\ handles[h].closes <= 1
       /\ handles[h].closes = 0
          <=> \E d \in 1..Len(stack) : Owns(stack[d], h)

C5_Witness ==
    /\ Done("call:findFilesInImg")
    /\ Len(handles) >= 3
    /\ AllClosedOnce
    /\ \E k \in TraceIdx : trace[k].ev = "filterFs"
                           /\ trace[k].r = "TSK_FILTER_STOP"
    /\ \E k \in TraceIdx : trace[k].ev = "processFile"
                           /\ trace[k].r = "TSK_ERR"

\* C6: no image handle is ever closed while it is not open, the handles
\* that are open are exactly the one the session holds (none when it holds
\* none), and a destroyed session leaves no handle open; so each handle
\* opened is closed exactly once, by the re-open, the close or the
\* destruction that follows.
C6_ImageClosedOnce ==
    /\ imgBadClose = 0
    /\ imgLive = IF m_img_info = NULL THEN {} ELSE {m_img_info}
    /\ m_tag = TagCleared => imgLive = {}

\* a re-open of a session that held an image has succeeded
C6_Witness ==
    /\ Called("call:openImage")
    /\ trace[1].n # NULL
    /\ rv = 0
    /\ imgLive = {m_img_info}

\* C7: the history of a call that has returned shows that whenever filterVol
\* returned skip or stop for a partition the callback returned at once, and
\* no file system open, filterFs call or processFile call was made at that
\* partition's offset.
C7_RejectedNotOpened ==
    stack = << >> =>
    \A k \in TraceIdx :
       (trace[k].ev = "filterVol" /\ trace[k].r # "TSK_FILTER_CONT") =>
          /\ Len(trace) > k
          /\ trace[k + 1].ev = "ret:vsWalkCb"
          /\ \A m \in TraceIdx :
                trace[m].ev \in FsEvents => trace[m].off # trace[k].off

C7_Witness ==
    /\ Done("call:findFilesInImg")
    /\ \E k \in TraceIdx : /\ trace[k].ev = "filterVol"
                           /\ trace[k].r = "TSK_FILTER_SKIP"
                           /\ \E m \in (k + 1)..Len(trace) :
                                 trace[m].ev = "processFile"

\* C8: the history of a walk that has returned shows that
\* after a skip verdict of filterVol the enumeration turns to the next
\* matching partition (or ends normally when there is none); after a stop
\* verdict of filterVol, or of filterFs inside a partition, no later
\* partition is filtered, opened or walked.
C8_SkipAndStop ==
    (stack = << >> /\ InVolumeWalk) =>
    \A k \in TraceIdx :
       /\ (trace[k].ev = "filterVol" /\ trace[k].r = "TSK_FILTER_SKIP"
           /\ Len(trace) > k + 1) =>
             IF Following(trace[k].n) <= Len(image.parts)
             THEN trace[k + 2].ev = "vsWalkCb"
                  /\ trace[k + 2].n = Following(trace[k].n)
             ELSE trace[k + 2].ev = "ret:tsk_vs_part_walk"
                  /\ trace[k + 2].r = "0"
       /\ (trace[k].ev \in {"filterVol", "filterFs"}
           /\ trace[k].r = "TSK_FILTER_STOP") =>
             \A m \in (k + 1)..Len(trace) : trace[m].ev \notin PartEvents

C8_Witness ==
    /\ Done("call:findFilesInImg")
    /\ Len(image.parts) >= 2
    /\ image.parts[2].flags = TSK_VS_PART_FLAG_ALLOC
    /\ \E k \in TraceIdx : /\ trace[k].ev = "filterFs"
                           /\ trace[k].off = BlockSize
                           /\ trace[k].r = "TSK_FILTER_STOP"

\* the partition a byte offset belongs to (partition i starts at sector i)
PartOf(off) == off \div BlockSize

\* the (offset, file) pairs processFile was invoked on, in order
Visited ==
    LET P == SelectSeq(trace, LAMBDA e : e.ev = "processFile")
    IN [k \in 1..Len(P) |-> <<P[k].off, P[k].n>>]

\* the files of the partitions from i on that match the partition flags and
\* hold a readable file system, in partition order
RECURSIVE ExpectedFiles(_)
ExpectedFiles(i) ==
    IF i > Len(image.parts) THEN << >>
    ELSE LET part == image.parts[i]
             cnt == IF part.flags \in m_volFilterFlags /\ part.fs.kind = "ok"
                    THEN DirWalkCount(part.fs,
                            {TSK_FS_DIR_WALK_FLAG_RECURSE}
                            \cup m_fileFilterFlags)
                    ELSE 0
         IN [j \in 1..cnt |-> <<PartOffset(part), j>>]
            \o ExpectedFiles(i + 1)

CleanRun ==
    \A k \in TraceIdx :
       trace[k].ev \in HookEvents
       => trace[k].r \in {"TSK_FILTER_CONT", "TSK_OK"}

VolumeSystemWalk ==
    /\ Called("call:findFilesInImg")
       \/ (Called("call:findFilesInVs") /\ trace[1].off = 0)
    /\ trace[1].r = "img"
    /\ image.vs

\* C9: in a finished walk of an image with a volume system, processFile was
\* invoked
\* exactly once for each file the directory walk yields, only on files of
\* partitions that match the partition flags and that filterVol admitted, in
\* ascending partition order and file order; when every hook lets the walk
\* go on, the files visited are exactly the files of the matching partitions
\* that hold a readable file system.
C9_OncePerFileInOrder ==
    (stack = << >> /\ VolumeSystemWalk) =>
       /\ \A a, b \in 1..Len(Visited) :
             a < b => \/ PartOf(Visited[a][1]) < PartOf(Visited[b][1])
                      \/ /\ Visited[a][1] = Visited[b][1]
                         /\ Visited[a][2] < Visited[b][2]
       /\ \A k \in TraceIdx :
             trace[k].ev = "processFile" =>
                /\ PartOf(trace[k].off) \in 1..Len(image.parts)
                /\ image.parts[PartOf(trace[k].off)].flags
                      \in m_volFilterFlags
                /\ \E m \in 1..(k - 1) :
                      /\ trace[m].ev = "filterVol"
                      /\ trace[m].n = PartOf(trace[k].off)
                      /\ trace[m].r = "TSK_FILTER_CONT"
                /\ trace[k - 1].ev = "dirWalkCb"
                /\ trace[k - 1].off = trace[k].off
                /\ trace[k - 1].n = trace[k].n
       /\ \A k \in TraceIdx :
             (trace[k].ev = "dirWalkCb" /\ Len(trace) > k)
             => trace[k + 1].ev = "processFile"
       /\ CleanRun => Visited = ExpectedFiles(1)

C9_Witness ==
    /\ Done("call:findFilesInImg")
    /\ CleanRun
    /\ Len(Visited) = 2 * MaxFiles
    /\ Visited[1][1] # Visited[Len(Visited)][1]

\* C10 (as claimed): with an image open, findFilesInImg never returns
\* failure.
C10_NeverFails ==
    (Done("call:findFilesInImg") /\ trace[1].r = "img") => rv = 0

\* the fallback file-system walk at offset 0 reported an error
FallbackFailed ==
    \/ image.fs0.kind = "none"
    \/ /\ \E k \in TraceIdx : trace[k].ev = "filterFs"
                              /\ trace[k].r = "TSK_FILTER_CONT"
       /\ \/ image.fs0.kind = "corrupt"
          \/ \E k \in TraceIdx : trace[k].ev = "processFile"
                                 /\ trace[k].r \in {"TSK_ERR", "TSK_COR"}

\* C10 (amended): with an image open and a volume system at offset 0, no
\* error inside a partition makes findFilesInImg return failure: it fails
\* only when the partition enumeration itself fails; with no volume system
\* it returns failure exactly when the fallback file-system walk fails.
C10_FailsOnlyAtTopLayer ==
    (Done("call:findFilesInImg") /\ trace[1].r = "img") =>
       IF image.vs
       THEN rv = IF Len(image.parts) = 0 THEN 1 ELSE 0
       ELSE rv = IF FallbackFailed THEN 1 ELSE 0

C10_Witness ==
    /\ Done("call:findFilesInImg")
    /\ image.vs
    /\ rv = 0
    /\ \E k \in TraceIdx : trace[k].ev = "fs_open_fail"
    /\ \E k \in TraceIdx : trace[k].ev = "processFile"
                           /\ trace[k].r = "TSK_ERR"

\* the handle events and hook calls of the current top-level call, in order
Observable ==
    SelectSeq(trace, LAMBDA e : e.ev \in {"vs_open", "vs_close", "filterVol",
                                          "fs_open", "fs_open_fail",
                                          "filterFs", "processFile",
                                          "fs_close"})

\* obs, hs and ret are the hook calls, the handles and the 0/1 value of one
\* walk of the file system at byte offset off from directory inum, as a
\* function of the verdicts the hooks gave: a failed open and nothing else;
\* or one handle opened, filterFs called once on it, processFile called on
\* the files 1, 2, ... while it returns ok, and the handle closed once
FsWalkObserved(off, inum, obs, hs, ret) ==
    LET fs == FsAt(off)
        cnt == DirWalkCount(fs, {TSK_FS_DIR_WALK_FLAG_RECURSE}
                                \cup m_fileFilterFlags)
    IN
    IF fs.kind = "none"
    THEN /\ obs = <<Ev("fs_open_fail", off, 0, "fs")>>
         /\ hs = << >>
         /\ ret = 1
    ELSE /\ hs = <<[kind |-> "fs", off |-> off, closes |-> 1]>>
         /\ Len(obs) >= 3
         /\ obs[1] = Ev("fs_open", off, 1, "ok")
         /\ obs[Len(obs)] = Ev("fs_close", off, 1, "ok")
         /\ obs[2].ev = "filterFs" /\ obs[2].off = off /\ obs[2].n = 1
         /\ LET files == SubSeq(obs, 3, Len(obs) - 1)
                m == Len(files)
            IN
            IF obs[2].r # "TSK_FILTER_CONT"
            THEN m = 0 /\ ret = 0
            ELSE IF fs.kind = "corrupt" \/ inum # RootInum
            THEN m = 0 /\ ret = 1
            ELSE /\ m <= cnt
                 /\ \A j \in 1..m :
                       /\ files[j].ev = "processFile"
                       /\ files[j].off = off
                       /\ files[j].n = j
                       /\ j < m => files[j].r = "TSK_OK"
                 /\ m < cnt => (m >= 1 /\ files[m].r # "TSK_OK")
                 /\ ret = IF m >= 1 /\ files[m].r \in {"TSK_ERR", "TSK_COR"}
                          THEN 1 ELSE 0

\* C11: a findFilesInVs(offset) that finds no volume system at the offset
\* makes the calls of an explicit findFilesInFs(offset): for the same hook
\* verdicts both have the same filterFs call, the same processFile calls, the
\* same handle opened and closed, and the same 0/1 return value.
C11_FallbackIsFsWalk ==
    /\ (Done("call:findFilesInVs") /\ trace[1].r = "img"
        /\ ~VsAt(trace[1].off))
       => FsWalkObserved(trace[1].off, RootInum, Observable, handles, rv)
    /\ (Done("call:findFilesInFs") /\ trace[1].r = "img")
       => FsWalkObserved(trace[1].off, RootInum, Observable, handles, rv)

C11_Witness ==
    /\ Done("call:findFilesInVs")
    /\ trace[1].r = "img"
    /\ ~image.vs
    /\ image.fs0.kind = "ok"
    /\ Len(Observable) = 3 + MaxFiles
    /\ rv = 1

EntryPoints == {"findFilesInImg", "findFilesInVs", "findFilesInFsRet",
                "findFilesInFs", "findFilesInFs2"}

\* C12: a traversal entry point called while no image is open makes no
\* volume-system or file-system open and no hook call: its history holds
\* nothing but returns of entry points, at most two of them, and the value
\* it returns is its error value (TSK_ERR for findFilesInFsRet, 1 for the
\* others).
C12_NoImageFailsAtOnce ==
    (trace # << >> /\ trace[1].r = "noimg"
     /\ trace[1].ev \in {"call:" \o f : f \in EntryPoints}) =>
       /\ handles = << >>
       /\ Len(trace) <= 3
       /\ \A k \in 2..Len(trace) :
             trace[k].ev \in {"ret:" \o f : f \in EntryPoints}
       /\ stack = << >> =>
             rv = IF trace[1].ev = "call:findFilesInFsRet"
                  THEN "TSK_ERR" ELSE 1

C12_Witness ==
    /\ Done("call:findFilesInFs")
    /\ trace[1].r = "noimg"
    /\ Len(trace) = 3
    /\ rv = 1

\* the last call of the interface was an openImage that failed
OpenFailed == Called("call:openImage") /\ rv = 1

\* C13: after an openImage that failed the session holds no image and no
\* image handle is open (the one held before was closed); a findFilesInImg
\* that follows is entered with no image, and a findFilesInImg entered with
\* no image returns 1.
C13_FailedOpenLeavesNoImage ==
    /\ [](OpenFailed => (m_img_info = NULL /\ imgLive = {}))
    /\ [][(OpenFailed /\ trace' # << >>
           /\ trace'[1].ev = "call:findFilesInImg")
          => trace'[1].r = "noimg"]_vars
    /\ []((Done("call:findFilesInImg") /\ trace[1].r = "noimg") => rv = 1)

\* an openImage of a session that held an image has failed
C13_Witness ==
    /\ OpenFailed
    /\ trace[1].n # NULL
    /\ m_img_info = NULL

\* C16: the history of a call that has returned shows that a skip or stop
\* verdict of filterFs is followed at once by the return of findFilesInFsInt
\* (TSK_OK for skip, TSK_STOP for stop) and by the close of the handle the
\* filter was given, which has then been closed exactly once; findFilesInFsRet
\* returns that same outcome; and no directory walk was started and no
\* processFile call was made for that file system.
C16_FilteredFsNotWalked ==
    stack = << >> =>
    \A k \in TraceIdx :
       (trace[k].ev = "filterFs" /\ trace[k].r # "TSK_FILTER_CONT") =>
       LET out == IF trace[k].r = "TSK_FILTER_SKIP" THEN "TSK_OK"
                  ELSE "TSK_STOP"
       IN /\ Len(trace) >= k + 3
          /\ trace[k + 1] = Ev("ret:findFilesInFsInt", trace[k].off,
                               trace[k].n, out)
          /\ trace[k + 2] = Ev("fs_close", trace[k].off, trace[k].n, "ok")
          /\ handles[trace[k].n].closes = 1
          /\ trace[k + 3].ev = "ret:findFilesInFsRet" => trace[k + 3].r = out
          /\ \A m \in TraceIdx :
                trace[m].ev \in {"dirWalkCb", "processFile",
                                 "ret:tsk_fs_dir_walk"}
                => trace[m].off # trace[k].off

C16_Witness ==
    /\ Done("call:findFilesInImg")
    /\ \E k \in TraceIdx : trace[k].ev = "filterFs"
                           /\ trace[k].r = "TSK_FILTER_SKIP"
    /\ \E k \in TraceIdx : trace[k].ev = "filterFs"
                           /\ trace[k].r = "TSK_FILTER_STOP"
    /\ trace[Len(trace) - 5].ev = "ret:findFilesInFsRet"
    /\ trace[Len(trace) - 5].r = "TSK_STOP"

\* C17: the history of a call that has returned shows that every invocation
\* of dirWalkCb made exactly one processFile call, on the file it was given,
\* and returned continue exactly when the hook returned ok, stop exactly
\* when it returned stop, and walk-level error exactly for every other
\* result.
C17_DispatchIsExhaustive ==
    stack = << >> =>
    /\ \A k \in TraceIdx :
          trace[k].ev = "dirWalkCb" =>
             /\ Len(trace) >= k + 2
             /\ trace[k + 1].ev = "processFile"
             /\ trace[k + 1].off = trace[k].off
             /\ trace[k + 1].n = trace[k].n
             /\ trace[k + 2].ev = "ret:dirWalkCb"
             /\ LET res == trace[k + 1].r
                    sig == trace[k + 2].r
                IN /\ res \in TSK_RETVAL_ENUM
                   /\ sig \in TSK_WALK_RET_ENUM
                   /\ sig = "TSK_WALK_CONT" <=> res = "TSK_OK"
                   /\ sig = "TSK_WALK_STOP" <=> res = "TSK_STOP"
                   /\ sig = "TSK_WALK_ERROR" <=> res \in {"TSK_ERR", "TSK_COR"}
    /\ \A k \in TraceIdx :
          trace[k].ev = "processFile" => trace[k - 1].ev = "dirWalkCb"

C17_Witness ==
    /\ Done("call:findFilesInFsRet")
    /\ \E k \in TraceIdx : /\ trace[k].ev = "processFile"
                           /\ trace[k].r = "TSK_COR"
                           /\ trace[k].n = MaxFiles
                           /\ trace[k + 1].r = "TSK_WALK_ERROR"

\* C19: findFilesInFs(offset) and findFilesInFs(offset, root directory) are
\* the same function of the hook verdicts: with no image both return 1 and
\* do nothing; with an image both make the same filterFs call and the same
\* processFile calls on one handle opened and closed once, and both return 1
\* exactly when the file system could not be opened or the directory walk
\* failed.
C19_EntryShapesAgree ==
    ((Done("call:findFilesInFs") \/ Done("call:findFilesInFs2"))
     /\ (trace[1].ev = "call:findFilesInFs2" => trace[1].n = RootInum)) =>
       /\ IF trace[1].r = "noimg"
          THEN Observable = << >> /\ handles = << >> /\ rv = 1
          ELSE FsWalkObserved(trace[1].off, RootInum, Observable, handles,
                              rv)
       /\ rv = 1 <=>
             \/ \A k \in TraceIdx : trace[k].ev # "fs_open"
             \/ \E k \in TraceIdx : trace[k].ev = "ret:tsk_fs_dir_walk"
                                    /\ trace[k].r = "1"

C19_Witness ==
    /\ Done("call:findFilesInFs2")
    /\ trace[1].n = RootInum
    /\ trace[1].off = BlockSize
    /\ rv = 0
    /\ \E k \in TraceIdx : trace[k].ev = "processFile"
                           /\ trace[k].r = "TSK_STOP"
                           /\ trace[k].n = MaxFiles

\* C20: when tsk_vs_open finds no volume system, the last error is reset
\* before any file system is opened; from then on the last error is never
\* that of the volume-system probe, and it is a file-system error only when
\* the fallback open or the fallback directory walk has failed.
C20_ErrorIsFromFallback ==
    \A k \in TraceIdx :
       trace[k].ev = "vs_open_fail" =>
          /\ Len(trace) > k
          /\ trace[k + 1].ev = "error_reset"
          /\ \A m \in 1..k : trace[m].ev \notin {"fs_open", "fs_open_fail"}
          /\ tsk_errno # "vs"
          /\ tsk_errno = "fs" =>
                \E m \in (k + 2)..Len(trace) :
                   \/ trace[m].ev = "fs_open_fail"
                   \/ trace[m].ev = "ret:tsk_fs_dir_walk" /\ trace[m].r = "1"

C20_Witness ==
    /\ Done("call:findFilesInVs")
    /\ \E k \in TraceIdx : trace[k].ev = "vs_open_fail"
    /\ \E k \in TraceIdx : trace[k].ev = "fs_open"
    /\ tsk_errno = "fs"
    /\ rv = 1

\* the call of processAttributes that the return at k belongs to
CallOf(k) ==
    CHOOSE c \in 1..(k - 1) :
       /\ trace[c].ev = "call:processAttributes"
       /\ \A t \in (c + 1)..(k - 1) : trace[t].ev = "processAttribute"

SetIdx(ev) == {k \in TraceIdx : trace[k].ev = ev}
MinOf(S) == CHOOSE x \in S : \A y \in S : x <= y
MaxOf(S) == CHOOSE x \in S : \A y \in S : x >= y

\* the setting the session held when the traversal was entered, cur being
\* the setting it holds now: the one the first setter call replaced
EntryFlags(ev, cur) ==
    IF SetIdx(ev) = {} THEN cur ELSE trace[MinOf(SetIdx(ev))].off

\* the setting the session held when event k was logged
FlagsAt(ev, k, cur) ==
    LET B == {j \in SetIdx(ev) : j < k}
    IN IF B = {} THEN EntryFlags(ev, cur) ELSE trace[MaxOf(B)].n

\* the return of filterFs that started the directory walk at offset off
WalkStart(off) ==
    CHOOSE k \in TraceIdx : trace[k].ev = "filterFs" /\ trace[k].off = off

\* C18 (as claimed): the flags of every partition enumeration and of every
\* directory walk of a traversal are the settings the session held when the
\* traversal call was entered, whatever setter calls its hooks have made
\* since.
C18_FlagsFixedAtEntry ==
    \A d \in 1..Len(stack) :
       /\ stack[d].fn = "tsk_vs_part_walk" =>
             stack[d].flags = EntryFlags("setVolFilterFlags",
                                         m_volFilterFlags)
       /\ stack[d].fn = "tsk_fs_dir_walk" =>
             stack[d].flags = {TSK_FS_DIR_WALK_FLAG_RECURSE}
                              \cup EntryFlags("setFileFilterFlags",
                                              m_fileFilterFlags)

\* C18 (amended): the flags of the partition enumeration are the setting
\* held when the traversal call was entered, and no setter call of a hook
\* changes them; the flags of a directory walk are the recursion flag and
\* the directory setting held when the filterFs hook of that file system
\* returned, so a setFileFilterFlags call of a hook changes the flags of
\* the directory walks started after it and of no walk already running.
C18_FlagsReadAtWalkStart ==
    \A d \in 1..Len(stack) :
       /\ stack[d].fn = "tsk_vs_part_walk" =>
             stack[d].flags = EntryFlags("setVolFilterFlags",
                                         m_volFilterFlags)
       /\ stack[d].fn = "tsk_fs_dir_walk" =>
             stack[d].flags = {TSK_FS_DIR_WALK_FLAG_RECURSE}
                              \cup FlagsAt("setFileFilterFlags",
                                           WalkStart(stack[d].off),
                                           m_fileFilterFlags)

\* a directory walk runs with the setting a hook installed after the
\* traversal was entered, while a later setter call has not changed it
C18_Witness ==
    \E d \in 1..Len(stack) :
       /\ stack[d].fn = "tsk_fs_dir_walk"
       /\ stack[d].flags # {TSK_FS_DIR_WALK_FLAG_RECURSE}
                           \cup EntryFlags("setFileFilterFlags",
                                           m_fileFilterFlags)
       /\ stack[d].flags # {TSK_FS_DIR_WALK_FLAG_RECURSE}
                           \cup m_fileFilterFlags

C21_OffsetIsProduct ==
    \A d \in 2..Len(stack) :
        (stack[d].fn = "findFilesInFsRet" /\ stack[d - 1].fn = "vsWalkCb")
        => /\ stack[d].a_start
                 = PartOffset_Exact(image.parts[stack[d - 1].part])
           /\ stack[d].a_start >= 0

\* an admitted partition whose offset was passed to the File System Walker
C21_Witness ==
    \E d \in 2..Len(stack) :
        /\ stack[d].fn = "findFilesInFsRet"
        /\ stack[d - 1].fn = "vsWalkCb"
        /\ stack[d].a_start
              = PartOffset_Exact(image.parts[stack[d - 1].part])
        /\ stack[d].a_start > 0

\* a file-system hook is being invoked: findFilesInFsInt is about to call
\* filterFs, or dirWalkCb is about to call processFile
FsHookCall ==
    /\ stack # << >>
    /\ Top.pc = "start"
    /\ Top.fn \in {"findFilesInFsInt", "dirWalkCb"}

\* the file-system handle the hook is given
HookHandle == IF Top.fn = "dirWalkCb" THEN Top.fs ELSE Top.a_fs_info

\* handle h of the given kind was opened and has not been closed
IsOpen(h, kind) ==
    /\ h \in 1..Len(handles)
    /\ handles[h].kind = kind
    /\ handles[h].closes = 0

\* C22: whenever the file-system filter hook or the per-file hook is being
\* invoked, the file-system handle it is given has been opened and not yet
\* closed, and so has the volume-system handle of the enumeration the call
\* lies in, if any; in the history of a call every hook event on a
\* file-system handle lies between the open and the close of that handle.
C22_HooksOnOpenHandles ==
    /\ FsHookCall =>
          /\ IsOpen(HookHandle, "fs")
          /\ handles[HookHandle].off = Top.off
          /\ \A e \in 1..Len(stack) :
                (stack[e].fn = "findFilesInVs" /\ stack[e].pc = "walk_ret")
                => IsOpen(stack[e].vs_info, "vs")
    /\ stack = << >> =>
          \A k \in TraceIdx :
             trace[k].ev = "filterFs" =>
                /\ \E j \in 1..(k - 1) : /\ trace[j].ev = "fs_open"
                                         /\ trace[j].n = trace[k].n
                /\ \A j \in 1..k : ~(/\ trace[j].ev = "fs_close"
                                      /\ trace[j].n = trace[k].n)

\* the per-file hook is being invoked inside a partition enumeration, after
\* the filter hook of the same file system let the walk go on
C22_Witness ==
    /\ Running("dirWalkCb", "start")
    /\ IsOpen(Top.fs, "fs")
    /\ \E e \in 1..Len(stack) : /\ stack[e].fn = "findFilesInVs"
                                /\ stack[e].pc = "walk_ret"
                                /\ IsOpen(stack[e].vs_info, "vs")
    /\ \E k \in TraceIdx : /\ trace[k].ev = "filterFs"
                           /\ trace[k].n = Top.fs
    /\ \E h \in 1..Len(handles) : handles[h].kind = "fs"
                                  /\ handles[h].closes = 1

\* C23: across any sequence of open(imageFile), close() and destruction,
\* each data buffer allocated during a traversal is released at most once.
C23_ReleasedAtMostOnce == \A b \in 1..Len(heap) : heap[b] <= 1

\* a buffer allocated by a traversal has been released by a close
C23_Witness ==
    /\ \E b \in 1..Len(heap) : heap[b] = 1
    /\ \E k \in 1..Len(l01log) : l01log[k].call = "close"
    /\ C23_ReleasedAtMostOnce

\* C24: open(imageFile) returns 0 only if the open of the container image,
\* the read of its root entry, the traversal and extractFiles all
\* succeeded; a failure of any of them makes it return -1.
C24_OpenReportsFailure ==
    \A k \in 1..Len(l01log) :
        (l01log[k].call = "open" /\ l01log[k].failed # "abort")
        => (l01log[k].ret = 0 <=> l01log[k].failed = "none")

\* an open that failed while traversing and returned -1
C24_Witness ==
    \E k \in 1..Len(l01log) : /\ l01log[k].call = "open"
                               /\ l01log[k].failed = "traverse"
                               /\ l01log[k].ret = -1

====
